---- MODULE Spec2Model ----
(***************************************************************************)
(* Model of the job-application email generator:                           *)
(*   - routes/emailRoutes.js : POST /api/email/generate (request           *)
(*     normalisation, the call of generateEmail, the 200 / 500 response)   *)
(*   - services/geminiService.js : deriveHrEmail, sanitizeText,            *)
(*     toPlainMultiline and generateEmail (extraction, safe variables,     *)
(*     prompt, generation, post-processing, fallback template)             *)
(*                                                                         *)
(* A JavaScript string is a sequence of one-character strings, one element *)
(* per UTF-16 code unit.  The two non-ASCII code units of the source are   *)
(* written "<U+2013>" (en dash) and "<U+2019>" (right single quote).       *)
(* A JavaScript value is a record [t, s, n]: t is its typeof-like tag, s   *)
(* the characters of a string, n the value of a number or boolean.         *)
(***************************************************************************)
EXTENDS Integers, Sequences, FiniteSets, TLC

VARIABLES
    pc,       \* position of the request in flight: idle, extract, generate, done
    entry,    \* who called generateEmail: "http" (the route) or "direct" (an importer)
    body,     \* req.body of the HTTP request
    input,    \* the argument of generateEmail (inputData for the route)
    locals,   \* generateEmail's destructured locals (name ... location)
    prompt,   \* the eleven safe values interpolated into the generation prompt
    calls,    \* the capability invocations of this request, in order
    genOut,   \* what the generation call produced
    ret,      \* the { subject, body } generateEmail returned
    res       \* the HTTP response

vars == <<pc, entry, body, input, locals, prompt, calls, genOut, ret, res>>

-----------------------------------------------------------------------------
(* Characters and JavaScript string primitives                             *)

UpperSeq ==
    <<"A", "B", "C", "D", "E", "F", "G", "H", "I", "J", "K", "L", "M",
      "N", "O", "P", "Q", "R", "S", "T", "U", "V", "W", "X", "Y", "Z">>

LowerSeq ==
    <<"a", "b", "c", "d", "e", "f", "g", "h", "i", "j", "k", "l", "m",
      "n", "o", "p", "q", "r", "s", "t", "u", "v", "w", "x", "y", "z">>

DigitChars == {"0", "1", "2", "3", "4", "5", "6", "7", "8", "9"}

\* the characters \s matches among the characters the model uses
WhitespaceChars == {" ", "\t", "\n", "\r"}

IsWs(c) == c \in WhitespaceChars

IsLetter(c) == \E i \in 1..Len(UpperSeq) : c = UpperSeq[i] \/ c = LowerSeq[i]

\* String.prototype.toLowerCase, one code unit
toLowerChar(c) ==
    IF \E i \in 1..Len(UpperSeq) : c = UpperSeq[i]
    THEN LowerSeq[CHOOSE i \in 1..Len(UpperSeq) : c = UpperSeq[i]]
    ELSE c

\* String.prototype.toLowerCase
toLowerCase(s) == [i \in 1..Len(s) |-> toLowerChar(s[i])]

SetMin(S) == CHOOSE x \in S : \A y \in S : x <= y

\* String.prototype.trim: from the first to the last character that is no whitespace
trim(s) ==
    IF \A i \in 1..Len(s) : IsWs(s[i]) THEN <<>>
    ELSE SubSeq(s,
                CHOOSE i \in 1..Len(s) : ~IsWs(s[i]) /\ \A j \in 1..(i - 1) : IsWs(s[j]),
                CHOOSE i \in 1..Len(s) : ~IsWs(s[i]) /\ \A j \in (i + 1)..Len(s) : IsWs(s[j]))

\* marks a code unit that a replace() removes; no character is the empty string
Removed == ""

\* s.replace(/\s+/g, " "): every maximal run of whitespace becomes one space (the
\* first character of the run becomes the space, the others are removed)
collapseWhitespace(s) ==
    SelectSeq([i \in 1..Len(s) |->
                  IF ~IsWs(s[i]) THEN s[i]
                  ELSE IF i > 1 /\ IsWs(s[i - 1]) THEN Removed ELSE " "],
              LAMBDA c : c # Removed)

\* s.replace(/\s+/g, ""): every whitespace character is removed
removeWhitespace(s) == SelectSeq(s, LAMBDA c : ~IsWs(c))

\* s.replace(/\r\n/g, "\n"): a "\r" that a "\n" follows is removed
replaceCrLf(s) ==
    SelectSeq([i \in 1..Len(s) |->
                  IF s[i] = "\r" /\ i < Len(s) /\ s[i + 1] = "\n" THEN Removed ELSE s[i]],
              LAMBDA c : c # Removed)

\* s.slice(0, n) for 0 <= n
sliceTo(s, n) == SubSeq(s, 1, IF n < Len(s) THEN n ELSE Len(s))

\* s.includes(sub)
includes(s, sub) ==
    \E i \in 1..(Len(s) - Len(sub) + 1) : SubSeq(s, i, i + Len(sub) - 1) = sub

-----------------------------------------------------------------------------
(* JavaScript values                                                       *)

Undefined == [t |-> "undefined", s |-> <<>>, n |-> 0]

Null == [t |-> "null", s |-> <<>>, n |-> 0]

Str(s) == [t |-> "string", s |-> s, n |-> 0]

Num(n) == [t |-> "number", s |-> <<>>, n |-> n]

Bool(b) == [t |-> "boolean", s |-> <<>>, n |-> IF b THEN 1 ELSE 0]

\* a JSON object or array literal, {} or [] included: always truthy, never a string
Obj == [t |-> "object", s |-> <<>>, n |-> 0]

Arr == [t |-> "array", s |-> <<>>, n |-> 0]

IsString(v) == v.t = "string"

\* ToBoolean
Truthy(v) ==
    CASE v.t = "string" -> Len(v.s) > 0
      [] v.t = "number" -> v.n # 0
      [] v.t = "boolean" -> v.n = 1
      [] v.t \in {"object", "array"} -> TRUE
      [] OTHER -> FALSE

\* a || b
Or(a, b) == IF Truthy(a) THEN a ELSE b

\* destructuring default: v = d applies only when the property is undefined
Default(v, d) == IF v.t = "undefined" THEN d ELSE v

FieldNames ==
    {"name", "userEmail", "userPhone", "hrName", "hrEmail", "jobRole", "company",
     "companyPhone", "education", "skills", "location"}

NoFields == [f \in FieldNames |-> Undefined]

-----------------------------------------------------------------------------
(* services/geminiService.js: utilities                                    *)

PlaceholderHrEmail == <<"h", "r", "@", "c", "o", "m", "p", "a", "n", "y", ".", "c", "o", "m">>

\* deriveHrEmail(company): company is a JavaScript value, the result a string
deriveHrEmail(company) ==
    IF ~Truthy(company) \/ ~IsString(company) THEN PlaceholderHrEmail
    ELSE <<"h", "r", "@">> \o removeWhitespace(toLowerCase(company.s)) \o <<".", "c", "o", "m">>

\* sanitizeText(s, fallback): s is a JavaScript value, the result a string
sanitizeText(s, fallback) ==
    IF ~IsString(s) THEN fallback ELSE trim(collapseWhitespace(s.s))

\* toPlainMultiline(s): String(s || "") is s itself at its one call site, which
\* passes a value already checked to be a string
toPlainMultiline(s) ==
    trim(replaceCrLf(IF Truthy(s) THEN s.s ELSE <<>>))

-----------------------------------------------------------------------------
(* routes/emailRoutes.js: normalisation of req.body                        *)

roleKeywords ==
    << <<"d", "e", "v", "e", "l", "o", "p", "e", "r">>, <<"e", "n", "g", "i", "n", "e", "e", "r">>,
      <<"d", "e", "s", "i", "g", "n", "e", "r">>, <<"m", "a", "n", "a", "g", "e", "r">>, <<"i", "n",
      "t", "e", "r", "n">>, <<"a", "n", "a", "l", "y", "s", "t">> >>

\* the keyword kw (lower case) matches s at position i under the /i flag
matchesAt(s, i, kw) ==
    /\ i + Len(kw) - 1 <= Len(s)
    /\ toLowerCase(SubSeq(s, i, i + Len(kw) - 1)) = kw

\* userInput.match(/(developer|engineer|designer|manager|intern|analyst)/i):
\* the leftmost position where an alternative matches, the first such alternative
jobRoleMatch(s) ==
    LET hits == {i \in 1..Len(s) :
                    \E k \in 1..Len(roleKeywords) : matchesAt(s, i, roleKeywords[k])}
    IN  IF hits = {} THEN [found |-> FALSE, m0 |-> <<>>]
        ELSE LET i == SetMin(hits)
                 k == SetMin({j \in 1..Len(roleKeywords) : matchesAt(s, i, roleKeywords[j])})
             IN  [found |-> TRUE, m0 |-> SubSeq(s, i, i + Len(roleKeywords[k]) - 1)]

\* the character class [A-Za-z0-9\s&]
InCompanyClass(c) == IsLetter(c) \/ c \in DigitChars \/ IsWs(c) \/ c = "&"

\* the first index q >= p of s whose character is not whitespace, Len(s) + 1 if none
firstNonWs(s, p) ==
    LET stop == {q \in p..Len(s) : ~IsWs(s[q])}
    IN  IF stop = {} THEN Len(s) + 1 ELSE SetMin(stop)

\* the first index q >= p of s whose character is outside the class, Len(s) + 1 if none
firstOutsideClass(s, p) ==
    LET stop == {q \in p..Len(s) : ~InCompanyClass(s[q])}
    IN  IF stop = {} THEN Len(s) + 1 ELSE SetMin(stop)

\* /at\s+([A-Za-z0-9\s&]+)/i tried at position i: "at", then the greedy
\* whitespace run s[i+2 .. j-1], then the greedy class run.  When the whitespace
\* run is followed by no class character the engine backtracks: \s+ gives one
\* whitespace character back (if it has two) and the group captures just that one.
companyAt(s, i) ==
    LET j == firstNonWs(s, i + 2)
    IN  IF ~(i + 1 <= Len(s) /\ toLowerCase(SubSeq(s, i, i + 1)) = <<"a", "t">> /\ j > i + 2)
        THEN [found |-> FALSE, m0 |-> <<>>, m1 |-> <<>>]
        ELSE IF j <= Len(s) /\ InCompanyClass(s[j])
        THEN [found |-> TRUE,
              m0 |-> SubSeq(s, i, firstOutsideClass(s, j) - 1),
              m1 |-> SubSeq(s, j, firstOutsideClass(s, j) - 1)]
        ELSE IF j > i + 3
        THEN [found |-> TRUE, m0 |-> SubSeq(s, i, j - 1), m1 |-> SubSeq(s, j - 1, j - 1)]
        ELSE [found |-> FALSE, m0 |-> <<>>, m1 |-> <<>>]

\* userInput.match(/at\s+([A-Za-z0-9\s&]+)/i): the leftmost position that matches
companyMatch(s) ==
    LET hits == {i \in 1..Len(s) : companyAt(s, i).found}
    IN  IF hits = {} THEN [found |-> FALSE, m0 |-> <<>>, m1 |-> <<>>]
        ELSE companyAt(s, SetMin(hits))

\* the branch test of line 19 for a body that is a string or an object
isRawRequest(b) == b.kind = "string" \/ Truthy(b.input)

\* body.input || body
userInputOf(b) ==
    IF Truthy(b.input) THEN b.input
    ELSE IF b.kind = "string" THEN Str(b.text) ELSE Obj

\* jobRoleMatch ? jobRoleMatch[0] : "Software Engineer"
jobRoleOf(userInput) ==
    IF jobRoleMatch(userInput).found THEN jobRoleMatch(userInput).m0
    ELSE <<"S", "o", "f", "t", "w", "a", "r", "e", " ", "E", "n", "g", "i", "n", "e", "e", "r">>

\* the slip of reading the whole match, companyMatch[0], for the captured group
companyOfWholeMatch(userInput) ==
    IF companyMatch(userInput).found THEN trim(companyMatch(userInput).m0)
    ELSE <<"t", "h", "e", " ", "c", "o", "m", "p", "a", "n", "y">>

\* companyMatch ? companyMatch[1].trim() : "the company"
companyOf(userInput) ==
    IF companyMatch(userInput).found THEN trim(companyMatch(userInput).m1)
    ELSE <<"t", "h", "e", " ", "c", "o", "m", "p", "a", "n", "y">>

\* inputData of the raw-text branch: seven keys, the other four absent
rawInputData(userInput) ==
    [NoFields EXCEPT
        !["name"] = Str(<<"C", "a", "n", "d", "i", "d", "a", "t", "e">>),
        !["hrEmail"] = Str(<<"h", "r", "@", "c", "o", "m", "p", "a", "n", "y", ".", "c", "o",
                             "m">>),
        !["jobRole"] = Str(jobRoleOf(userInput)),
        !["company"] = Str(companyOf(userInput)),
        !["education"] = Str(<<"B", ".", "T", "e", "c", "h", " ", "i", "n", " ", "C", "o", "m", "p",
                               "u", "t", "e", "r", " ", "S", "c", "i", "e", "n", "c", "e">>),
        !["skills"] = Str(<<"R", "e", "a", "c", "t", ",", " ", "N", "o", "d", "e", ".", "j", "s",
                            ",", " ", "a", "n", "d", " ", "m", "o", "d", "e", "r", "n", " ", "w",
                            "e", "b", " ", "d", "e", "v", "e", "l", "o", "p", "m", "e", "n", "t">>),
        !["location"] = Str(<<"I", "n", "d", "i", "a">>)]

\* the right-hand sides of body.<field> || <default> in the structured branch
routeDefault ==
    [NoFields EXCEPT
        !["name"] = Str(<<"C", "a", "n", "d", "i", "d", "a", "t", "e">>),
        !["hrName"] = Str(<<"H", "R">>),
        !["hrEmail"] = Str(<<"h", "r", "@", "c", "o", "m", "p", "a", "n", "y", ".", "c", "o",
                             "m">>),
        !["jobRole"] = Str(<<"S", "o", "f", "t", "w", "a", "r", "e", " ", "E", "n", "g", "i", "n",
                             "e", "e", "r">>),
        !["company"] = Str(<<"t", "h", "e", " ", "c", "o", "m", "p", "a", "n", "y">>),
        !["companyPhone"] = Str(<<>>),
        !["userEmail"] = Str(<<"c", "a", "n", "d", "i", "d", "a", "t", "e", "@", "e", "m", "a", "i",
                               "l", ".", "c", "o", "m">>),
        !["userPhone"] = Str(<<>>),
        !["education"] = Str(<<"B", ".", "T", "e", "c", "h", " ", "i", "n", " ", "C", "o", "m", "p",
                               "u", "t", "e", "r", " ", "S", "c", "i", "e", "n", "c", "e">>),
        !["skills"] = Str(<<"J", "a", "v", "a", "S", "c", "r", "i", "p", "t", ",", " ", "R", "e",
                            "a", "c", "t", ",", " ", "N", "o", "d", "e", ".", "j", "s">>),
        !["location"] = Str(<<"I", "n", "d", "i", "a">>)]

\* inputData of the structured branch
structuredInputData(b) == [f \in FieldNames |-> Or(b.f[f], routeDefault[f])]

\* lines 14-50: threw is the TypeError of userInput.match on a value that is
\* no string; inputData is what the handler passes on and echoes as parsedInput
normalize(b) ==
    IF isRawRequest(b)
    THEN IF IsString(userInputOf(b))
         THEN [threw |-> FALSE, inputData |-> rawInputData(userInputOf(b).s)]
         ELSE [threw |-> TRUE, inputData |-> NoFields]
    ELSE [threw |-> FALSE, inputData |-> structuredInputData(b)]

-----------------------------------------------------------------------------
(* The external capability's answers                                       *)

DocKeys == {"name", "jobRole", "company", "location", "subject", "body"}

NoDocFields == [k \in DocKeys |-> Undefined]

\* a JSON document: nothing (undefined), null, a non-zero number, or an object
\* whose properties among DocKeys are f (undefined where the key is missing)
NoDoc == [k |-> "none", f |-> NoDocFields]

NullDoc == [k |-> "null", f |-> NoDocFields]

NumberDoc == [k |-> "number", f |-> NoDocFields]

ObjectDoc(f) == [k |-> "object", f |-> f]

\* !doc is false
DocTruthy(d) == d.k \in {"number", "object"}

\* The text of an answer, by what the parsers can see of it:
\*   "empty"     the empty string (also what `?.text?.() || ""` gives for no text)
\*   "bare"      exactly the JSON serialisation of doc
\*   "wrapped"   prose or a code fence around the serialisation of an object doc
\*   "prose"     text with no brace in it
\*   "truncated" text with a "{" and no "}"
\*   "broken"    text with a "{" before a "}" whose slice is not JSON
Text(form, doc) == [form |-> form, doc |-> doc]

\* JSON.parse(text)
jsonParse(text) == [threw |-> text.form # "bare", doc |-> text.doc]

\* text.indexOf("{") !== -1
hasOpenBrace(text) ==
    \/ text.form \in {"wrapped", "truncated", "broken"}
    \/ text.form = "bare" /\ text.doc.k = "object"

\* text.lastIndexOf("}") !== -1
hasCloseBrace(text) ==
    \/ text.form \in {"wrapped", "broken"}
    \/ text.form = "bare" /\ text.doc.k = "object"

\* JSON.parse(text.slice(text.indexOf("{"), text.lastIndexOf("}") + 1)): without
\* both braces the slice is empty or cut short and JSON.parse throws
jsonParseSlice(text) ==
    [threw |-> ~(text.form = "wrapped" \/ (text.form = "bare" /\ text.doc.k = "object")),
     doc |-> text.doc]

\* one answer of generateContent: it threw (network, quota, safety block), or it
\* gave response.parsed (NoDoc when the SDK offers none) and response.text()
Answer(threw, parsed, text) == [threw |-> threw, parsed |-> parsed, text |-> text]

-----------------------------------------------------------------------------
(* services/geminiService.js: generateEmail                                *)

\* the argument of generateEmail: a string, or an object with its rawText
\* property and its eleven context properties
StringInput(s) == [kind |-> "string", text |-> s, rawText |-> Undefined, f |-> NoFields]

ObjectInput(rawText, f) == [kind |-> "object", text |-> <<>>, rawText |-> rawText, f |-> f]

\* typeof input === "string" || (input && input.rawText)
isRawInput(inp) == inp.kind = "string" \/ Truthy(inp.rawText)

\* lines 59-71: the destructuring with its four defaults; a string has none of
\* the properties
destructure(inp) ==
    LET src == IF inp.kind = "object" THEN inp.f ELSE NoFields
    IN  [src EXCEPT
            !["hrName"] = Default(src["hrName"], Str(<<"H", "R", " ", "M", "a", "n", "a", "g", "e",
                                                       "r">>)),
            !["education"] = Default(src["education"], Str(<<"B", ".", "T", "e", "c", "h", " ", "i",
                                                             "n", " ", "C", "o", "m", "p", "u", "t",
                                                             "e", "r", " ", "S", "c", "i", "e", "n",
                                                             "c", "e">>)),
            !["skills"] =
                Default(src["skills"], Str(<<"J", "a", "v", "a", ",", " ", "P", "y", "t", "h", "o",
                                             "n", ",", " ", "J", "a", "v", "a", "S", "c", "r", "i",
                                             "p", "t", ",", " ", "R", "e", "a", "c", "t", ",", " ",
                                             "a", "n", "d", " ", "N", "o", "d", "e", ".", "j",
                                             "s">>)),
            !["location"] = Default(src["location"], Str(<<"B", "a", "n", "g", "a", "l", "o", "r",
                                                           "e", ",", " ", "I", "n", "d", "i",
                                                           "a">>))]

\* lines 104-116: parsedExtract, or the exception of the try block
parseExtraction(ans) ==
    IF ans.threw THEN [threw |-> TRUE, doc |-> NoDoc]
    ELSE IF DocTruthy(ans.parsed) THEN [threw |-> FALSE, doc |-> ans.parsed]
    ELSE IF hasOpenBrace(ans.text) /\ hasCloseBrace(ans.text) THEN jsonParseSlice(ans.text)
    ELSE [threw |-> FALSE, doc |-> ObjectDoc(NoDocFields)]

\* lines 93-128: the locals after the extraction try/catch
afterExtraction(loc, ans) ==
    LET p == parseExtraction(ans)
    IN  IF ~p.threw
        THEN [loc EXCEPT
                !["name"] = Str(sanitizeText(p.doc.f["name"], <<"C", "a", "n", "d", "i", "d", "a",
                                                                "t", "e">>)),
                !["jobRole"] = Str(sanitizeText(p.doc.f["jobRole"], <<"S", "o", "f", "t", "w", "a",
                                                                      "r", "e", " ", "E", "n", "g",
                                                                      "i", "n", "e", "e", "r">>)),
                !["company"] = Str(sanitizeText(p.doc.f["company"], <<"t", "h", "e", " ", "c", "o",
                                                                      "m", "p", "a", "n", "y">>)),
                !["location"] = Str(sanitizeText(p.doc.f["location"], <<"I", "n", "d", "i", "a">>))]
        ELSE [loc EXCEPT
                !["name"] = Or(loc["name"], Str(<<"C", "a", "n", "d", "i", "d", "a", "t", "e">>)),
                !["jobRole"] = Or(loc["jobRole"], Str(<<"S", "o", "f", "t", "w", "a", "r", "e", " ",
                                                        "E", "n", "g", "i", "n", "e", "e", "r">>)),
                !["company"] = Or(loc["company"], Str(<<"t", "h", "e", " ", "c", "o", "m", "p", "a",
                                                        "n", "y">>)),
                !["location"] = Or(loc["location"], Str(<<"I", "n", "d", "i", "a">>))]

\* lines 134-144: the eleven safe strings, keyed by the context field they hold
safeValues(loc) ==
    [f \in FieldNames |->
        CASE f = "hrEmail" ->
                sanitizeText(Or(loc["hrEmail"], Str(deriveHrEmail(loc["company"]))),
                             <<"h", "r", "@", "c", "o", "m", "p", "a", "n", "y", ".", "c", "o",
                               "m">>)
          [] f = "userEmail" -> sanitizeText(loc[f], <<"e", "x", "a", "m", "p", "l", "e", "@", "e",
                                                       "m", "a", "i", "l", ".", "c", "o", "m">>)
          [] f = "userPhone" -> sanitizeText(loc[f], <<"+", "9", "1", "-", "X", "X", "X", "X", "X",
                                                       "X", "X", "X", "X", "X">>)
          [] f = "company" -> sanitizeText(loc[f], <<"t", "h", "e", " ", "c", "o", "m", "p", "a",
                                                     "n", "y">>)
          [] f = "hrName" -> sanitizeText(loc[f], <<"H", "R", " ", "M", "a", "n", "a", "g", "e",
                                                    "r">>)
          [] f = "name" -> sanitizeText(loc[f], <<"C", "a", "n", "d", "i", "d", "a", "t", "e">>)
          [] f = "jobRole" -> sanitizeText(loc[f], <<"S", "o", "f", "t", "w", "a", "r", "e", " ",
                                                     "E", "n", "g", "i", "n", "e", "e", "r">>)
          [] f = "location" -> sanitizeText(loc[f], <<"I", "n", "d", "i", "a">>)
          [] f = "education" -> sanitizeText(loc[f], <<"B", ".", "T", "e", "c", "h", " ", "i", "n",
                                                       " ", "C", "o", "m", "p", "u", "t", "e", "r",
                                                       " ", "S", "c", "i", "e", "n", "c", "e">>)
          [] f = "skills" ->
                sanitizeText(loc[f], <<"J", "a", "v", "a", ",", " ", "P", "y", "t", "h", "o", "n",
                                       ",", " ", "J", "a", "v", "a", "S", "c", "r", "i", "p", "t",
                                       ",", " ", "R", "e", "a", "c", "t", ",", " ", "a", "n", "d",
                                       " ", "N", "o", "d", "e", ".", "j", "s">>)
          [] f = "companyPhone" -> sanitizeText(loc[f], <<"N", "/", "A">>)]

SubjectCap == 90

SubjectKeep == 87

Ellipsis == <<".", ".", ".">>

\* `Application for ${safeJobRole} <U+2013> ${safeName}`
templateSubject(safe) ==
    <<"A", "p", "p", "l", "i", "c", "a", "t", "i", "o", "n", " ", "f", "o", "r",
      " ">> \o safe["jobRole"] \o <<" ", "<U+2013>", " ">> \o safe["name"]

\* lines 229-239
fallbackBody(safe) ==
    <<"D", "e", "a", "r", " ">> \o safe["hrName"] \o <<",", "\n", "\n">>
    \o <<"I", " ", "a", "m", " ", "w", "r", "i", "t", "i", "n", "g", " ", "t", "o", " ", "f", "o",
         "r", "m", "a", "l", "l", "y", " ", "e", "x", "p", "r", "e", "s", "s", " ", "m", "y", " ",
         "i", "n", "t", "e", "r", "e", "s", "t", " ", "i", "n", " ", "t", "h", "e",
         " ">> \o safe["jobRole"]
    \o <<" ", "p", "o", "s", "i", "t", "i", "o", "n", " ", "a", "t", " ">> \o safe["company"]
    \o <<".", " ", "W", "i", "t", "h", " ", "a", " ", "s", "t", "r", "o", "n", "g", " ", "a", "c",
         "a", "d", "e", "m", "i", "c", " ", "b", "a", "c", "k", "g", "r", "o", "u", "n", "d", " ",
         "i", "n", " ">> \o safe["education"]
    \o <<" ", "a", "n", "d", " ", "c", "o", "m", "p", "r", "e", "h", "e", "n", "s", "i", "v", "e",
         " ", "e", "x", "p", "e", "r", "i", "e", "n", "c", "e", " ", "i", "n",
         " ">> \o safe["skills"]
    \o <<",", " ", "I", " ", "a", "m", " ", "e", "a", "g", "e", "r", " ", "t", "o", " ", "c", "o",
         "n", "t", "r", "i", "b", "u", "t", "e", " ", "t", "o", " ", "y", "o", "u", "r", " ", "e",
         "s", "t", "e", "e", "m", "e", "d", " ", "o", "r", "g", "a", "n", "i", "z", "a", "t", "i",
         "o", "n", " ", "a", "n", "d", " ", "a", "l", "i", "g", "n", " ", "m", "y", " ", "p", "r",
         "o", "f", "e", "s", "s", "i", "o", "n", "a", "l", " ", "a", "s", "p", "i", "r", "a", "t",
         "i", "o", "n", "s", " ", "w", "i", "t", "h", " ", "y", "o", "u", "r", " ", "c", "o", "m",
         "p", "a", "n", "y", "<U+2019>", "s", " ", "v", "a", "l", "u", "e", "s", ".", "\n", "\n">>
    \o <<"T", "h", "r", "o", "u", "g", "h", "o", "u", "t", " ", "m", "y", " ", "a", "c", "a", "d",
         "e", "m", "i", "c", " ", "a", "n", "d", " ", "p", "r", "o", "j", "e", "c", "t", " ", "w",
         "o", "r", "k", ",", " ", "I", " ", "h", "a", "v", "e", " ", "c", "o", "n", "s", "i", "s",
         "t", "e", "n", "t", "l", "y", " ", "d", "e", "m", "o", "n", "s", "t", "r", "a", "t", "e",
         "d", " ", "d", "e", "d", "i", "c", "a", "t", "i", "o", "n", ",", " ", "r", "e", "s", "o",
         "u", "r", "c", "e", "f", "u", "l", "n", "e", "s", "s", ",", " ", "a", "n", "d", " ", "a",
         "d", "a", "p", "t", "a", "b", "i", "l", "i", "t", "y", ",", " ", "a", "t", "t", "r", "i",
         "b", "u", "t", "e", "s", " ", "w", "h", "i", "c", "h", " ", "I", " ", "a", "m", " ", "c",
         "o", "n", "f", "i", "d", "e", "n", "t", " ", "w", "i", "l", "l", " ", "e", "n", "a", "b",
         "l", "e", " ", "m", "e", " ", "t", "o", " ", "a", "d", "d", " ", "v", "a", "l", "u", "e",
         " ", "t", "o", " ", "y", "o", "u", "r", " ", "t", "e", "a", "m", ".", " ", "M", "y", " ",
         "t", "e", "c", "h", "n", "i", "c", "a", "l", " ", "p", "r", "o", "f", "i", "c", "i", "e",
         "n", "c", "y", " ", "a", "n", "d", " ", "c", "o", "m", "m", "i", "t", "m", "e", "n", "t",
         " ", "t", "o", " ", "c", "o", "n", "t", "i", "n", "u", "o", "u", "s", " ", "i", "m", "p",
         "r", "o", "v", "e", "m", "e", "n", "t", " ", "p", "o", "s", "i", "t", "i", "o", "n", " ",
         "m", "e", " ", "a", "s", " ", "a", " ", "s", "t", "r", "o", "n", "g", " ", "c", "a", "n",
         "d", "i", "d", "a", "t", "e", " ", "f", "o", "r", " ", "t", "h", "i", "s", " ", "r", "o",
         "l", "e", ".", "\n", "\n">>
    \o <<"I", " ", "w", "o", "u", "l", "d", " ", "a", "p", "p", "r", "e", "c", "i", "a", "t", "e",
         " ", "t", "h", "e", " ", "o", "p", "p", "o", "r", "t", "u", "n", "i", "t", "y", " ", "t",
         "o", " ", "f", "u", "r", "t", "h", "e", "r", " ", "d", "i", "s", "c", "u", "s", "s", " ",
         "m", "y", " ", "q", "u", "a", "l", "i", "f", "i", "c", "a", "t", "i", "o", "n", "s", " ",
         "a", "n", "d", " ", "h", "o", "w", " ", "t", "h", "e", "y", " ", "a", "l", "i", "g", "n",
         " ", "w", "i", "t", "h", " ", "y", "o", "u", "r", " ", "r", "e", "q", "u", "i", "r", "e",
         "m", "e", "n", "t", "s", ".", " ", "T", "h", "a", "n", "k", " ", "y", "o", "u", " ", "f",
         "o", "r", " ", "c", "o", "n", "s", "i", "d", "e", "r", "i", "n", "g", " ", "m", "y", " ",
         "a", "p", "p", "l", "i", "c", "a", "t", "i", "o", "n", ".", " ", "I", " ", "l", "o", "o",
         "k", " ", "f", "o", "r", "w", "a", "r", "d", " ", "t", "o", " ", "t", "h", "e", " ", "p",
         "o", "s", "s", "i", "b", "i", "l", "i", "t", "y", " ", "o", "f", " ", "c", "o", "n", "t",
         "r", "i", "b", "u", "t", "i", "n", "g", " ", "t", "o", " ">>
    \o safe["company"] \o <<".", "\n", "\n">>
    \o <<"S", "i", "n", "c", "e", "r", "e", "l", "y", ",", "\n">>
    \o safe["name"] \o <<"\n">>
    \o safe["location"] \o <<"\n">>
    \o <<"E", "m", "a", "i", "l", ":", " ">> \o safe["userEmail"] \o <<"\n">>
    \o <<"P", "h", "o", "n", "e", ":", " ">> \o safe["userPhone"]

\* line 241
fallbackEmail(safe) ==
    [subject |-> Str(templateSubject(safe)), body |-> Str(fallbackBody(safe))]

\* lines 196-206: parsed, or the exception of the try block
parseGeneration(ans) ==
    IF ans.threw THEN [threw |-> TRUE, doc |-> NoDoc]
    ELSE IF DocTruthy(ans.parsed) THEN [threw |-> FALSE, doc |-> ans.parsed]
    ELSE IF ~jsonParse(ans.text).threw THEN jsonParse(ans.text)
    ELSE jsonParseSlice(ans.text)

\* the slip of leaving out the trim() after the slice
finalSubjectNoTrim(subject) ==
    IF Len(subject) > SubjectCap
    THEN sliceTo(subject, SubjectKeep) \o Ellipsis
    ELSE subject

\* lines 217-218
finalSubject(subject) ==
    IF Len(subject) > SubjectCap
    THEN trim(sliceTo(subject, SubjectKeep)) \o Ellipsis
    ELSE subject

\* lines 182-223: the body of the try block; threw stands for every exception
\* raised in it, "Invalid response JSON." included
tryGeneration(safe, ans) ==
    LET p == parseGeneration(ans)
    IN  IF p.threw \/ ~DocTruthy(p.doc)
           \/ ~IsString(p.doc.f["subject"]) \/ ~IsString(p.doc.f["body"])
        THEN [threw |-> TRUE, email |-> [subject |-> Undefined, body |-> Undefined]]
        ELSE [threw |-> FALSE,
              email |-> [subject |->
                             Str(finalSubject(sanitizeText(p.doc.f["subject"],
                                                           templateSubject(safe)))),
                         body |-> Str(toPlainMultiline(p.doc.f["body"]))]]

\* the slip of a try block without its catch: the exception leaves generateEmail
generationNoCatch(safe, ans) == tryGeneration(safe, ans)

\* lines 182-243: the try block and its catch, which returns the fallback
\* template; threw is an exception leaving generateEmail
generation(safe, ans) ==
    LET t == tryGeneration(safe, ans)
    IN  IF t.threw THEN [threw |-> FALSE, email |-> fallbackEmail(safe)] ELSE t

-----------------------------------------------------------------------------
(* The requests, calls and answers the model draws from                    *)

\* how far below and above SubjectCap the lengths of the generated subjects go
SubjSpan == 5

\* the length of the long name / job role a request may carry
LongLen == 80

\* n times the character c
Repeat(c, n) == [i \in 1..n |-> c]

InitechText == <<"A", "p", "p", "l", "y", " ", "f", "o", "r", " ", "b", "a", "c", "k", "e", "n",
                 "d", " ", "d", "e", "v", "e", "l", "o", "p", "e", "r", " ", "a", "t", " ", "I",
                 "n", "i", "t", "e", "c", "h">>

RawTexts ==
    { InitechText,
      <<>>,
      <<"H", "i", "r", "e", " ", "a", "n", " ", "E", "N", "G", "I", "N", "E", "E", "R">>,
      <<"I", "n", "t", "e", "r", "n", " ", "a", "t", " ", "R", "&", "D", " ", "L", "a", "b", "s",
        ",", " ", "P", "u", "n", "e">>,
      <<"p", "l", "e", "a", "s", "e", " ", "l", "o", "o", "k", " ", "a", "t", " ", " ">>,
      <<"h", "e", "l", "l", "o">> }

\* req.body after express.json(): a string, or an object with its input
\* property and its eleven context properties (a request without a JSON body
\* arrives as the empty object)
StringBody(s) == [kind |-> "string", text |-> s, input |-> Undefined, f |-> NoFields]

ObjectBody(inputValue, f) == [kind |-> "object", text |-> <<>>, input |-> inputValue, f |-> f]

NoBody == [kind |-> "none", text |-> <<>>, input |-> Undefined, f |-> NoFields]

AshaFields ==
    [NoFields EXCEPT
        !["name"] = Str(<<"A", "s", "h", "a">>),
        !["jobRole"] = Str(<<"B", "a", "c", "k", "e", "n", "d", " ", "D", "e", "v", "e", "l", "o",
                             "p", "e", "r">>),
        !["company"] = Str(<<"A", "c", "m", "e">>),
        !["userEmail"] = Str(<<"a", "s", "h", "a", "@", "x", ".", "c", "o", "m">>)]

FieldValues ==
    { Undefined, Null, Str(<<>>), Str(<<" ", " ", " ">>), Str(<<"E", "x", "a", "m", "p", "l", "e",
                             " ", "C", "o", "r", "p">>),
      Str(<<" ", " ", "E", "x", "a", "m", "p", "l", "e", " ", "\t", " ", "C", "o", "r", "p", " ">>),
            Str(Repeat("x", LongLen)),
      Num(42), Num(0), Bool(TRUE), Bool(FALSE), Obj, Arr }

InputValues ==
    {Str(t) : t \in RawTexts} \cup {Num(42), Num(0), Bool(TRUE), Null, Obj, Arr}

Bodies ==
    {StringBody(t) : t \in RawTexts}
    \cup {ObjectBody(v, NoFields) : v \in InputValues}
    \cup {ObjectBody(Undefined, [AshaFields EXCEPT ![f] = v]) :
            f \in FieldNames, v \in FieldValues}

DirectInputs ==
    { StringInput(InitechText),
      StringInput(<<>>),
      ObjectInput(Str(InitechText), NoFields),
      ObjectInput(Str(<<"h", "e", "l", "l", "o">>), AshaFields),
      ObjectInput(Undefined, AshaFields),
      ObjectInput(Undefined, NoFields) }

ExtractDoc(name, jobRole, company, location) ==
    ObjectDoc([NoDocFields EXCEPT
                  !["name"] = name, !["jobRole"] = jobRole,
                  !["company"] = company, !["location"] = location])

ExtractDocs ==
    { ExtractDoc(Str(<<" ", "R", "a", "v", "i", " ", " ", " ", "K", "u", "m", "a", "r", " ">>),
                       Str(<<"B", "a", "c", "k", "e", "n", "d", " ", "D", "e", "v", "e", "l", "o",
                       "p", "e", "r">>), Str(<<"E", "x", "a", "m", "p", "l", "e", " ", "C", "o",
                       "r", "p">>),
                 Str(<<"P", "u", "n", "e">>)),
      ExtractDoc(Str(<<>>), Str(<<" ", " ">>), Undefined, Num(42)) }

ExtractionAnswers ==
    {Answer(TRUE, NoDoc, Text("empty", NoDoc))}
    \cup {Answer(FALSE, d, Text("empty", NoDoc)) : d \in ExtractDocs}
    \cup {Answer(FALSE, NoDoc, Text(form, d)) : form \in {"bare", "wrapped"}, d \in ExtractDocs}
    \cup {Answer(FALSE, NoDoc, Text(form, NoDoc)) :
            form \in {"empty", "prose", "truncated", "broken"}}

\* a subject of n characters: "x" everywhere but for what the shape puts in
SubjectOf(n, shape) ==
    [i \in 1..n |->
        CASE shape = "space-at-keep" /\ i = SubjectKeep -> " "
          [] shape = "space-after-keep" /\ i = SubjectKeep + 1 -> " "
          [] shape = "untidy" /\ i \in {1, 2, 40, 41, n} -> IF i = 41 THEN "\t" ELSE " "
          [] OTHER -> "x"]

SubjectShapes == {"plain", "space-at-keep", "space-after-keep", "untidy"}

Subjects ==
    {SubjectOf(n, shape) :
        n \in (SubjectCap - SubjSpan)..(SubjectCap + SubjSpan), shape \in SubjectShapes}
    \cup { <<"A", "p", "p", "l", "i", "c", "a", "t", "i", "o", "n", " ", "f", "o", "r", " ", "B",
             "a", "c", "k", "e", "n", "d", " ", "D", "e", "v", "e", "l", "o", "p", "e", "r", " ",
             "<U+2013>", " ", "A", "s", "h", "a">> }

EmailDoc(subjectValue, bodyValue) ==
    ObjectDoc([NoDocFields EXCEPT !["subject"] = subjectValue, !["body"] = bodyValue])

SampleBody == <<"D", "e", "a", "r", " ", "H", "R", " ", "M", "a", "n", "a", "g", "e", "r", ",",
                "\r", "\n", "\r", "\n", "P", "l", "e", "a", "s", "e", " ", "f", "i", "n", "d", " ",
                "m", "y", " ", "a", "p", "p", "l", "i", "c", "a", "t", "i", "o", "n", ".", "\r",
                "\n", "\r", "\n", "S", "i", "n", "c", "e", "r", "e", "l", "y", ",", "\r", "\n", "A",
                "s", "h", "a", "\r", "\n">>

SampleSubject == <<" ", " ", "A", "p", "p", "l", "i", "c", "a", "t", "i", "o", "n", " ", " ", " ",
                   "f", "o", "r", " ", "B", "a", "c", "k", "e", "n", "d", " ", "D", "e", "v", "e",
                   "l", "o", "p", "e", "r", " ">>

GenerationAnswers ==
    {Answer(TRUE, NoDoc, Text("empty", NoDoc))}
    \cup {Answer(FALSE, NoDoc, Text(form, NoDoc)) :
            form \in {"empty", "prose", "truncated", "broken"}}
    \cup {Answer(FALSE, NoDoc, Text("bare", d)) :
            d \in {NullDoc, NumberDoc, ObjectDoc(NoDocFields),
                   EmailDoc(Num(42), Str(SampleBody)),
                   EmailDoc(Str(SampleSubject), Undefined),
                   EmailDoc(Str(<<>>), Str(<<>>))}}
    \cup {Answer(FALSE, EmailDoc(Str(SampleSubject), Str(SampleBody)), Text("empty", NoDoc))}
    \cup {Answer(FALSE, NoDoc, Text("wrapped", EmailDoc(Str(SampleSubject), Str(SampleBody))))}
    \cup {Answer(FALSE, NoDoc, Text("bare", EmailDoc(Str(s), Str(SampleBody)))) :
            s \in Subjects}

-----------------------------------------------------------------------------
(* The state machine: one request at a time, from arrival to response      *)

NoInput == [kind |-> "none", text |-> <<>>, rawText |-> Undefined, f |-> NoFields]

NoPrompt == [f \in FieldNames |-> <<>>]

NoAnswer == [threw |-> FALSE, parsed |-> NoDoc, text |-> Text("none", NoDoc)]

NoEmail == [subject |-> Undefined, body |-> Undefined]

NoResponse ==
    [status |-> 0, success |-> FALSE, parsedInput |-> NoFields, generated |-> NoEmail,
     message |-> ""]

\* res.status(200).json({ success: true, parsedInput: inputData, generated: emailData })
okResponse(inputData, emailData) ==
    [status |-> 200, success |-> TRUE, parsedInput |-> inputData, generated |-> emailData,
     message |-> ""]

\* res.status(500).json({ success: false, message: "Internal Server Error", error })
errorResponse ==
    [status |-> 500, success |-> FALSE, parsedInput |-> NoFields, generated |-> NoEmail,
     message |-> "Internal Server Error"]

Init ==
    /\ pc = "idle"
    /\ entry = "none"
    /\ body = NoBody
    /\ input = NoInput
    /\ locals = NoFields
    /\ prompt = NoPrompt
    /\ calls = <<>>
    /\ genOut = NoAnswer
    /\ ret = NoEmail
    /\ res = NoResponse

\* generateEmail(inp) up to its first await: the destructuring, then either the
\* extraction call (raw input) or the safe values, the prompt and the generation call
enterGenerateEmail(inp) ==
    /\ input' = inp
    /\ locals' = destructure(inp)
    /\ IF isRawInput(inp)
       THEN /\ pc' = "extract"
            /\ calls' = <<"extract">>
            /\ prompt' = NoPrompt
       ELSE /\ pc' = "generate"
            /\ calls' = <<"generate">>
            /\ prompt' = safeValues(locals')
    /\ UNCHANGED <<genOut, ret>>

\* router.post("/generate"): normalisation, then generateEmail(inputData) up to
\* its await, or the catch block's 500 when normalisation threw
HttpRequest(b) ==
    /\ pc = "idle"
    /\ entry' = "http"
    /\ body' = b
    /\ LET n == normalize(b)
       IN  IF n.threw
           THEN /\ pc' = "done"
                /\ res' = errorResponse
                /\ UNCHANGED <<input, locals, prompt, calls, genOut, ret>>
           ELSE /\ enterGenerateEmail(ObjectInput(Undefined, n.inputData))
                /\ UNCHANGED res

\* a call of the exported generateEmail by another importer of the module
DirectCall(inp) ==
    /\ pc = "idle"
    /\ entry' = "direct"
    /\ enterGenerateEmail(inp)
    /\ UNCHANGED <<body, res>>

\* the extraction call settles: lines 104-128, then lines 134-193 up to the
\* generation call
ExtractionReturns(ans) ==
    /\ pc = "extract"
    /\ locals' = afterExtraction(locals, ans)
    /\ prompt' = safeValues(locals')
    /\ calls' = Append(calls, "generate")
    /\ pc' = "generate"
    /\ UNCHANGED <<entry, body, input, genOut, ret, res>>

\* the generation call settles: lines 194-243, then lines 55-59 (or 60-66) of
\* the route when the route is the caller
GenerationReturns(ans) ==
    /\ pc = "generate"
    /\ genOut' = ans
    /\ pc' = "done"
    /\ LET g == generation(prompt, ans)
       IN  IF g.threw
           THEN /\ ret' = NoEmail
                /\ res' = IF entry = "http" THEN errorResponse ELSE res
           ELSE /\ ret' = g.email
                /\ res' = IF entry = "http" THEN okResponse(input.f, g.email) ELSE res
    /\ UNCHANGED <<entry, body, input, locals, prompt, calls>>

\* the request is over; nothing of it is kept for the next one
NextRequest ==
    /\ pc = "done"
    /\ pc' = "idle"
    /\ entry' = "none"
    /\ body' = NoBody
    /\ input' = NoInput
    /\ locals' = NoFields
    /\ prompt' = NoPrompt
    /\ calls' = <<>>
    /\ genOut' = NoAnswer
    /\ ret' = NoEmail
    /\ res' = NoResponse

Next ==
    \/ \E b \in Bodies : HttpRequest(b)
    \/ \E inp \in DirectInputs : DirectCall(inp)
    \/ \E ans \in ExtractionAnswers : ExtractionReturns(ans)
    \/ \E ans \in GenerationAnswers : GenerationReturns(ans)
    \/ NextRequest

Spec == Init /\ [][Next]_vars

-----------------------------------------------------------------------------
(* Properties                                                              *)

\* the route has answered an HTTP request
HttpDone == pc = "done" /\ entry = "http"

\* the generation prompt of this request has been built
PromptBuilt == Len(calls) > 0 /\ calls[Len(calls)] = "generate"

\* the generation step of a finished request ended in the fallback template
GenerationFailed == pc = "done" /\ PromptBuilt /\ tryGeneration(prompt, genOut).threw

\* the generation step of a finished request returned the capability's email
GenerationSucceeded == pc = "done" /\ PromptBuilt /\ ~tryGeneration(prompt, genOut).threw

\* C1: every request whose body passes normalisation ends, whatever the
\* generation call did (threw, no JSON, JSON without a string subject or
\* body, a valid result), with the 200 response { success: true, parsedInput,
\* generated } whose generated.subject and generated.body are strings; no
\* failure of the capability gives the 500 response or leaves generateEmail
\* as an exception.
C1_FailuresAbsorbed ==
    /\ (HttpDone /\ ~normalize(body).threw) =>
            /\ res.status = 200
            /\ res.success
            /\ res.parsedInput = normalize(body).inputData
            /\ res.generated = ret
            /\ IsString(res.generated.subject)
            /\ IsString(res.generated.body)
    /\ (pc = "done" /\ PromptBuilt) => IsString(ret.subject) /\ IsString(ret.body)

\* C1 witness: the generation call threw and the request still got its 200
C1_Witness ==
    HttpDone /\ genOut.threw /\ res.status = 200 /\ IsString(res.generated.body)

\* a request that carries free text: a non-empty string, as the body or as
\* the body's input property
IsRawTextRequest(b) ==
    \/ b.kind = "string" /\ b.text # <<>>
    \/ b.kind = "object" /\ IsString(b.input) /\ b.input.s # <<>>

\* a request that carries an object without an input property
IsStructuredRequest(b) == b.kind = "object" /\ b.input = Undefined

\* C2 (as claimed): a raw-text request (a string body, or { input: string })
\* invokes the capability exactly twice, extraction first and generation
\* after it, and a structured request exactly once (generation); no request
\* invokes it more than twice.
C2_CallsPerRequest ==
    HttpDone =>
        /\ Len(calls) <= 2
        /\ IsRawTextRequest(body) => calls = <<"extract", "generate">>
        /\ IsStructuredRequest(body) => calls = <<"generate">>

\* the structured request of the end-to-end scenario: name, jobRole, company
\* and userEmail as given, hrName omitted
IsAshaRequest(b) ==
    /\ b.kind = "object"
    /\ ~Truthy(b.input)
    /\ b.f["name"] = AshaFields["name"]
    /\ b.f["jobRole"] = AshaFields["jobRole"]
    /\ b.f["company"] = AshaFields["company"]
    /\ b.f["userEmail"] = AshaFields["userEmail"]
    /\ b.f["hrName"] = Undefined

\* C3 (as claimed): for the structured request { name: "Asha", jobRole:
\* "Backend Developer", company: "Acme", userEmail: "asha@x.com" } without
\* hrName, a failed generation gives the subject "Application for Backend
\* Developer <U+2013> Asha" and a body that contains "Dear HR Manager,", the
\* company and the user's email address.
C3_AshaFallback ==
    (HttpDone /\ IsAshaRequest(body) /\ GenerationFailed) =>
        /\ res.generated.subject = Str(<<"A", "p", "p", "l", "i", "c", "a", "t", "i", "o", "n", " ",
                                         "f", "o", "r", " ", "B", "a", "c", "k", "e", "n", "d", " ",
                                         "D", "e", "v", "e", "l", "o", "p", "e", "r", " ",
                                         "<U+2013>", " ", "A", "s", "h", "a">>)
        /\ includes(res.generated.body.s, <<"D", "e", "a", "r", " ", "H", "R", " ", "M", "a", "n",
                                            "a", "g", "e", "r", ",">>)
        /\ includes(res.generated.body.s, <<"A", "c", "m", "e">>)
        /\ includes(res.generated.body.s, <<"a", "s", "h", "a", "@", "x", ".", "c", "o", "m">>)

\* the free-text request of the end-to-end scenario, in its two forms
IsInitechRequest(b) ==
    b = StringBody(InitechText) \/ b = ObjectBody(Str(InitechText), NoFields)

\* C4 (as claimed): "Apply for backend developer at Initech" gives
\* parsedInput.jobRole = "backend developer" and parsedInput.company = "Initech".
C4_InitechAsClaimed ==
    (HttpDone /\ IsInitechRequest(body)) =>
        /\ res.parsedInput["jobRole"] = Str(<<"b", "a", "c", "k", "e", "n", "d", " ", "d", "e", "v",
                                              "e", "l", "o", "p", "e", "r">>)
        /\ res.parsedInput["company"] = Str(<<"I", "n", "i", "t", "e", "c", "h">>)

\* the text of a raw-text request
RawTextOf(b) == userInputOf(b).s

\* C4 (amended): "Apply for backend developer at Initech" gives
\* parsedInput.jobRole = "developer", the matched keyword alone, and
\* parsedInput.company = "Initech".  For every free-text request the role is
\* the default or a piece of the input that is a role keyword up to case, and
\* the company is the default or a piece of the input with no whitespace at
\* either end.
C4_InitechKeywordOnly ==
    /\ (HttpDone /\ IsInitechRequest(body)) =>
            /\ res.status = 200
            /\ res.parsedInput["jobRole"] = Str(<<"d", "e", "v", "e", "l", "o", "p", "e", "r">>)
            /\ res.parsedInput["company"] = Str(<<"I", "n", "i", "t", "e", "c", "h">>)
    /\ (HttpDone /\ isRawRequest(body) /\ res.status = 200) =>
            LET role == res.parsedInput["jobRole"].s
                company == res.parsedInput["company"].s
            IN  /\ \/ role = <<"S", "o", "f", "t", "w", "a", "r", "e", " ", "E", "n", "g", "i", "n",
                               "e", "e", "r">>
                   \/ /\ includes(RawTextOf(body), role)
                      /\ \E k \in 1..Len(roleKeywords) : toLowerCase(role) = roleKeywords[k]
                /\ \/ company = <<"t", "h", "e", " ", "c", "o", "m", "p", "a", "n", "y">>
                   \/ /\ includes(RawTextOf(body), company)
                      /\ company = <<>> \/ (~IsWs(company[1]) /\ ~IsWs(company[Len(company)]))

\* C4 witness: the scenario's request, sent as { input: ... }, has been answered
C4_Witness ==
    /\ HttpDone
    /\ body = ObjectBody(Str(InitechText), NoFields)
    /\ res.status = 200
    /\ res.parsedInput["company"] = Str(<<"I", "n", "i", "t", "e", "c", "h">>)

\* C5 (as claimed): in a structured request a field that is absent, the empty
\* string or no string at all is replaced by its default in parsedInput, and
\* any other value is the supplied string.
C5_StructuredDefaults ==
    (HttpDone /\ IsStructuredRequest(body)) =>
        \A f \in FieldNames :
            res.parsedInput[f] =
                IF IsString(body.f[f]) /\ body.f[f].s # <<>> THEN body.f[f] ELSE routeDefault[f]

\* C6 (as claimed): when the generation prompt is built, each of the eleven
\* context values in it is a non-empty string.
C6_PromptValuesNonEmpty ==
    (entry = "http" /\ PromptBuilt) => \A f \in FieldNames : prompt[f] # <<>>

\* C7 (as claimed): normalisation raises no error for any payload, so no
\* payload is answered with the 500 response.
C7_NormalizerNeverFails ==
    HttpDone => (~normalize(body).threw /\ res.status # 500)

\* the subject the capability generated, whitespace collapsed and trimmed
GeneratedSubject == sanitizeText(parseGeneration(genOut).doc.f["subject"], <<>>)

\* C8 (as claimed): on the generation path a subject longer than 90
\* characters (collapsed and trimmed) is returned as its first 87 characters
\* followed by "...", 90 characters in all; a subject of 90 or fewer is
\* returned unchanged.
C8_TruncationAsClaimed ==
    GenerationSucceeded =>
        IF Len(GeneratedSubject) > SubjectCap
        THEN /\ ret.subject.s = SubSeq(GeneratedSubject, 1, SubjectKeep) \o Ellipsis
             /\ Len(ret.subject.s) = SubjectCap
        ELSE ret.subject.s = GeneratedSubject

\* C8 (amended): on the generation path a subject longer than 90 characters
\* (collapsed and trimmed) is returned as its first 87 characters, less the
\* 87th when that is a space, followed by "..."; it is 90 characters long,
\* or 89 when the 87th character is a space; a subject of 90 or fewer is
\* returned unchanged.
C8_TruncationTrimmed ==
    GenerationSucceeded =>
        IF Len(GeneratedSubject) > SubjectCap
        THEN LET kept == IF IsWs(GeneratedSubject[SubjectKeep])
                         THEN SubjectKeep - 1 ELSE SubjectKeep
             IN  /\ ret.subject.s = SubSeq(GeneratedSubject, 1, kept) \o Ellipsis
                 /\ Len(ret.subject.s) = kept + Len(Ellipsis)
                 /\ Len(ret.subject.s) <= SubjectCap
        ELSE ret.subject.s = GeneratedSubject

\* C8 witness: a generated subject longer than 90 characters whose 87th is a
\* space has been truncated
C8_Witness ==
    /\ GenerationSucceeded
    /\ Len(GeneratedSubject) > SubjectCap
    /\ IsWs(GeneratedSubject[SubjectKeep])
    /\ Len(ret.subject.s) = SubjectCap - 1

\* C9 (as claimed): every email generateEmail returns, from the generation
\* path or from the fallback template, has a subject of at most 90 characters.
C9_SubjectAtMostCap ==
    (pc = "done" /\ PromptBuilt) => Len(ret.subject.s) <= SubjectCap

\* the company the request names: the company property of a structured
\* request, the company found in the text of a raw-text request
RequestCompany(b) ==
    IF isRawRequest(b)
    THEN IF companyMatch(RawTextOf(b)).found THEN Str(companyOf(RawTextOf(b))) ELSE Undefined
    ELSE b.f["company"]

\* C10 (as claimed): when the request supplies no hrEmail, the HR email in
\* the prompt is "hr@" + the company in lower case without whitespace +
\* ".com" (hr@examplecorp.com for "Example Corp"), and the placeholder
\* hr@company.com only when the request names no company or one that is no
\* string.
C10_HrEmailDerived ==
    (entry = "http" /\ PromptBuilt /\ body.f["hrEmail"] = Undefined) =>
        LET company == RequestCompany(body)
        IN  prompt["hrEmail"] =
                IF ~IsString(company) \/ company.s = <<>> THEN <<"h", "r", "@", "c", "o", "m", "p",
                                                       "a", "n", "y", ".", "c", "o", "m">>
                ELSE <<"h", "r", "@">> \o removeWhitespace(toLowerCase(company.s)) \o <<".", "c",
                       "o", "m">>

====
